---------------------------- MODULE Spec2Model ----------------------------
(***************************************************************************)
(* WhatMail: the monitoring control loop (whatmail_app.py), the dedup      *)
(* ledger and batch loop (email_processor_optimized.py) and the browser    *)
(* session and send protocol (whatsapp_client.py).                         *)
(*                                                                         *)
(* Threads: foreground callers of start_monitoring / stop_monitoring (the  *)
(* GUI runs each call on a thread of its own, whatmail_gui.py:225-251) and *)
(* the EmailMonitor worker threads start_monitoring creates.  Every        *)
(* start_monitoring builds a fresh WhatsAppClient and a fresh              *)
(* EmailProcessor; the worker reads self.whatsapp_client and               *)
(* self.email_processor anew at each use.                                  *)
(***************************************************************************)
EXTENDS Integers, Sequences, FiniteSets, TLC

\* ------------------------------------------------------------- bounds
MaxId == 2          \* message ids the mailbox search can return: 1..MaxId
BatchCeiling == 2   \* MAX_EMAILS_PER_RUN of the modelled configuration
MaxStarts == 2      \* initialize_components calls (component generations)
MaxLaunches == 2    \* browser launches (webdriver.Chrome(...) calls)
MaxCycles == 2      \* monitoring cycles a worker begins

\* --------------------------------------------------- program constants
MaxRetries == 3     \* send_message(..., max_retries=3)

Ids == 1..MaxId
Gens == 1..MaxStarts
Workers == 1..MaxStarts
\* foreground threads that call start_monitoring / stop_monitoring
Callers == {"fg1", "fg2"}
\* the callers that act in Spec: the control calls come one after another
SerialCallers == {"fg1"}

\* ------------------------------------------------------ ledger format
\* msg_id.decode(): the id as text
Decode(msg_id) == ToString(msg_id)

\* f"{datetime.now().isoformat()},{email_id}\n": a line is its fields, the
\* timestamp text, the separator, the id text
FormatLine(email_id) == <<"ts", ",", email_id>>

\* line.strip().split(",", 1): the text before the first separator and the
\* text after it, or the whole line when there is no separator
FirstSep(line) ==
    IF \E i \in 1..Len(line) : line[i] = ","
    THEN CHOOSE i \in 1..Len(line) :
            line[i] = "," /\ \A j \in 1..(i - 1) : line[j] # ","
    ELSE 0

SplitOnce(line) ==
    IF FirstSep(line) = 0
    THEN <<line>>
    ELSE <<SubSeq(line, 1, FirstSep(line) - 1),
           SubSeq(line, FirstSep(line) + 1, Len(line))>>

\* a loader that keeps parts[0], the timestamp, of every line
LoadFirstParts(file) ==
    { SplitOnce(line)[1][1] :
        line \in { l \in file : Len(SplitOnce(l)) >= 2 /\ Len(SplitOnce(l)[1]) = 1 } }

\* _load_processed_ids: parts[1] of every line that has two parts; a
\* missing file (FileNotFoundError) reads as no lines
LoadProcessedIds(file) ==
    { SplitOnce(line)[2][1] :
        line \in { l \in file : Len(SplitOnce(l)) >= 2 /\ Len(SplitOnce(l)[2]) = 1 } }

\* ------------------------------------------------------- batch helpers
RECURSIVE Ascending(_)
Ascending(S) ==
    IF S = {} THEN <<>>
    ELSE LET m == CHOOSE x \in S : \A y \in S : x <= y
         IN <<m>> \o Ascending(S \ {m})

\* message_ids[-self.max_emails_per_run:]
LastN(s, n) == IF Len(s) <= n THEN s ELSE SubSeq(s, Len(s) - n + 1, Len(s))

\* reversed(message_ids)
Reversed(s) == [i \in 1..Len(s) |-> s[Len(s) + 1 - i]]

\* --------------------------------------------------- cycle bookkeeping
\* the record of one cycle of one worker: ids send was called for, ids
\* whose send returned True, ids whose send ended in Sent, ids added to the
\* set, ids whose ledger append raised, whether the health check failed
\* and how many reconnections were attempted
NoCycle == [calls |-> {}, ok |-> {}, sure |-> {}, rec |-> {}, nolog |-> {},
            lost |-> FALSE, reconn |-> 0, fresh |-> {}, fail |-> FALSE,
            pace |-> "none"]

\* check_interval = int(os.getenv('CHECK_INTERVAL', '300'))
CheckInterval == 300
\* the wait after a cycle that raised, in seconds
ErrorDelay == 60

\* get_status before its first call: nothing returned yet
NoStatus == [returned |-> FALSE]

VARIABLES
    \* WhatMailApp
    is_running,      \* self.is_running
    stop_event,      \* self.stop_event (threading.Event flag)
    gen,             \* generation of self.whatsapp_client / self.email_processor (0: None)
    mthread,         \* self.monitoring_thread (0: None)
    \* WhatsAppClient objects, one per generation
    driver,          \* driver[k]: self.driver is a launched browser (FALSE: None)
    session_active,  \* session_active[k]
    launched,        \* browsers launched so far
    leaked,          \* leaked[k]: browsers client k launched, dropped and never quit
    \* EmailProcessor objects, one per generation
    processed_ids,   \* processed_ids[k]: the in-memory set
    stop_flag,       \* stop_flag[k] (threading.Event flag)
    ledger,          \* lines of logs/processed_emails.txt
    \* foreground callers
    cpc,             \* where each caller is
    cgen,            \* the client a caller's start_session runs on
    \* EmailMonitor worker threads
    pc,              \* where each worker is
    wgen,            \* the client / processor the worker's current call runs on
    notified,        \* the worker's stop_event.wait was woken by set()
    cycles,          \* cycles the worker has begun
    todo,            \* ids of the batch still to visit, in visiting order
    cur,             \* msg_id of the item last examined (0: none)
    attempt,         \* send_message's attempt index
    outcome,         \* how the last send for the item in hand ended
    wait_s,          \* timeout of the worker's last stop_event.wait (0: none yet)
    \* observation
    \* the status monitor thread (whatmail_gui.py) calling get_status
    spc,             \* where the status thread is
    sgen,            \* the client its is_session_active runs on
    status,          \* the dict get_status builds and returns
    observed,        \* the cycle bookkeeping is kept in this behaviour
    cyc,             \* what the worker's current cycle has done so far
    sent,            \* ids send_to_saved_number has been called for
    lastStop,        \* the control call that returned last was stop_monitoring
    \* EmailProcessor configuration
    max_emails_per_run,  \* self.max_emails_per_run
    \* one call of _wait_for_element
    selectors,       \* what the page holds for each selector of the list
    clickable,       \* the clickable argument
    sel_i,           \* position in the selector loop (0: not called)
    slices,          \* wait.until calls that ran out their timeout
    element,         \* the result: "none" yet, "element" (of selector sel_i), "None", "raised"
    \* one call of send_message
    mpc,             \* where the call is
    sattempt,        \* attempt, the retry loop's index
    surface,         \* the input box shows the start of the text
    did,             \* commands issued in the attempt in hand
    navs,            \* driver.get calls of the whole call
    shots,           \* screenshots saved by the whole call
    injected,        \* a text injection was attempted in the call
    submitted,       \* a submit (click or Enter) was attempted in the call
    ret,             \* what the call returned ("none" yet)
    why,             \* the return statement it left by
    \* _clean_message_text
    kpc,             \* "idle", "cleaned" (applied once), "again" (applied to its result)
    message,         \* the argument, a sequence of code points
    clean_message,   \* what _clean_message_text(message) returned
    clean_again      \* what _clean_message_text(clean_message) returned

appVars == <<is_running, stop_event, gen, mthread>>
clientVars == <<driver, session_active, launched, leaked>>
procVars == <<processed_ids, stop_flag, ledger>>
callerVars == <<cpc, cgen>>
workerVars == <<pc, wgen, notified, cycles, todo, cur, attempt, outcome>>
obsVars == <<sent, lastStop>>
statusVars == <<spc, sgen, status>>
configVars == <<max_emails_per_run>>
locVars == <<selectors, clickable, sel_i, slices, element>>
sendVars == <<mpc, sattempt, surface, did, navs, shots, injected, submitted,
              ret, why>>
textVars == <<kpc, message, clean_message, clean_again>>
unitVars == <<configVars, locVars, sendVars, textVars>>
vars == <<appVars, clientVars, procVars, callerVars, workerVars, obsVars, cyc,
          wait_s, observed, statusVars, unitVars>>

\* what an attempt of send_message has done: nothing yet
NoAttempt == [nav |-> 0, marker |-> FALSE, input |-> "none", shot |-> 0,
              typed |-> 0, js |-> 0, button |-> "none", click |-> "none",
              enter |-> "none", seen |-> FALSE]

\* the state after WhatMailApp() is constructed; keep: whether the cycle
\* bookkeeping is kept; ceilings: the values MAX_EMAILS_PER_RUN may have
Constructed(keep, ceilings) ==
    /\ observed = keep
    /\ max_emails_per_run \in ceilings
    /\ selectors = <<>>
    /\ clickable = FALSE
    /\ sel_i = 0
    /\ slices = 0
    /\ element = "none"
    /\ mpc = "idle"
    /\ sattempt = 0
    /\ surface = FALSE
    /\ did = NoAttempt
    /\ navs = 0
    /\ shots = 0
    /\ injected = FALSE
    /\ submitted = FALSE
    /\ ret = "none"
    /\ why = "none"
    /\ kpc = "idle"
    /\ message = <<>>
    /\ clean_message = <<>>
    /\ clean_again = <<>>
    /\ spc = "idle"
    /\ sgen = 0
    /\ status = NoStatus
    /\ is_running = FALSE
    /\ stop_event = FALSE
    /\ gen = 0
    /\ mthread = 0
    /\ driver = [k \in Gens |-> FALSE]
    /\ session_active = [k \in Gens |-> FALSE]
    /\ launched = 0
    /\ leaked = [k \in Gens |-> 0]
    /\ processed_ids = [k \in Gens |-> {}]
    /\ stop_flag = [k \in Gens |-> FALSE]
    /\ ledger = {}
    /\ cpc = [c \in Callers |-> "idle"]
    /\ cgen = [c \in Callers |-> 0]
    /\ pc = [w \in Workers |-> "unborn"]
    /\ wgen = [w \in Workers |-> 0]
    /\ notified = [w \in Workers |-> FALSE]
    /\ cycles = [w \in Workers |-> 0]
    /\ todo = [w \in Workers |-> <<>>]
    /\ cur = [w \in Workers |-> 0]
    /\ attempt = [w \in Workers |-> 0]
    /\ outcome = [w \in Workers |-> "None"]
    /\ wait_s = [w \in Workers |-> 0]
    /\ cyc = [w \in Workers |-> NoCycle]
    /\ sent = {}
    /\ lastStop = FALSE

Init == Constructed(FALSE, {BatchCeiling})


\* ------------------------------------------------- cycles observed
\* the bookkeeping of worker w's cycle after a step of w: reset when the
\* cycle ends (the inter-cycle wait is called, or the thread ends)
CycleAfter(w) ==
    LET gained == IF wgen[w] = 0 THEN {}
                  ELSE { i \in Ids : Decode(i) \in processed_ids'[wgen[w]]
                                      /\ Decode(i) \notin processed_ids[wgen[w]] }
        c == [cyc[w] EXCEPT !.rec = @ \cup gained]
    IN  CASE pc[w] = "sleep" /\ pc'[w] # "sleep" -> NoCycle
          [] pc[w] = "exit" /\ pc'[w] = "dead" -> NoCycle
          [] pc[w] \in {"probe", "probing"} /\ pc'[w] = "reconnect" ->
                [c EXCEPT !.lost = TRUE]
          [] pc[w] = "reconnect" /\ pc'[w] # "reconnect" ->
                [c EXCEPT !.reconn = @ + 1]
          [] pc[w] = "send" /\ pc'[w] # "send" ->
                [c EXCEPT !.calls = @ \cup {cur[w]}]
          [] pc[w] = "item" /\ pc'[w] = "item" /\ todo'[w] # todo[w]
                /\ Decode(Head(todo[w])) \notin processed_ids[wgen[w]] ->
                [c EXCEPT !.fail = TRUE]
          [] pc[w] = "attempt" /\ pc'[w] = "item" ->
                [c EXCEPT !.fail = TRUE]
          [] pc[w] = "attempt" /\ pc'[w] = "record" ->
                [c EXCEPT !.pace = "due"]
          [] pc[w] = "pace" /\ pc'[w] # "pace" ->
                [c EXCEPT !.pace = IF stop_flag[wgen[w]] THEN "cancelled"
                                                         ELSE "done"]
          [] pc[w] = "record" /\ pc'[w] # "record" ->
                [c EXCEPT !.ok = @ \cup {cur[w]},
                          !.sure = IF outcome[w] = "Sent" THEN @ \cup {cur[w]} ELSE @,
                          !.nolog = IF pc'[w] = "pace" THEN @ \cup {cur[w]} ELSE @]
          [] OTHER -> c

\* a step of worker w: the bookkeeping follows it in the behaviours that
\* keep it (observed), and stays empty in the others
Observe(w) ==
    cyc' = IF observed THEN [cyc EXCEPT ![w] = CycleAfter(w)] ELSE cyc

\* the step in which worker w's search returned the ids unseen: the ones
\* of them that are not in processed_ids are noted
ObservePoll(w, unseen) ==
    cyc' = IF observed
           THEN [cyc EXCEPT ![w] =
                   [CycleAfter(w) EXCEPT !.fresh =
                       { i \in unseen : Decode(i) \notin processed_ids[gen] }]]
           ELSE cyc

\* ------------------------------------------------------------ helpers
Alive(w) == pc[w] \notin {"unborn", "dead"}

\* threading.Event.set(): the flag, and every thread blocked in wait() on
\* it is woken (its wait returns True whatever happens to the flag later)
EventSet ==
    /\ stop_event' = TRUE
    /\ notified' = [w \in Workers |-> notified[w] \/ pc[w] = "sleeping"]

\* live browser instances: the ones clients hold and the orphaned ones
RECURSIVE SumTo(_, _)
SumTo(f, n) == IF n = 0 THEN 0 ELSE f[n] + SumTo(f, n - 1)

NLive == SumTo(leaked, MaxStarts) + Cardinality({k \in Gens : driver[k]})

\* _setup_driver succeeding: self.driver = webdriver.Chrome(...), whatever
\* self.driver held before
SetupDriverOk(k) ==
    /\ launched < MaxLaunches
    /\ launched' = launched + 1
    /\ leaked' = [leaked EXCEPT ![k] = @ + (IF driver[k] THEN 1 ELSE 0)]
    /\ driver' = [driver EXCEPT ![k] = TRUE]

\* stop_session: quit the driver if there is one, then driver = None and
\* session_active = False
StopSession(k) ==
    /\ driver' = [driver EXCEPT ![k] = FALSE]
    /\ session_active' = [session_active EXCEPT ![k] = FALSE]
    /\ UNCHANGED <<launched, leaked>>

\* ------------------------------------------- start_monitoring (caller)
\* if self.is_running: return True
StartAlreadyRunning(c) ==
    /\ cpc[c] = "idle"
    /\ is_running
    /\ lastStop' = FALSE
    /\ UNCHANGED <<appVars, clientVars, procVars, callerVars, workerVars, sent, wait_s, observed, unitVars, cyc, statusVars>>

\* not running: initialize_components builds a new WhatsAppClient (driver
\* None, session not active) and a new EmailProcessor (processed_ids
\* loaded from the ledger, a fresh stop_flag)
InitializeComponents(c) ==
    /\ cpc[c] = "idle"
    /\ ~is_running
    /\ gen < MaxStarts
    /\ gen' = gen + 1
    /\ processed_ids' = [processed_ids EXCEPT ![gen + 1] = LoadProcessedIds(ledger)]
    /\ cpc' = [cpc EXCEPT ![c] = "s_session"]
    /\ UNCHANGED <<is_running, stop_event, mthread, clientVars, stop_flag, ledger,
                   cgen, workerVars, obsVars, wait_s, observed, unitVars, cyc, statusVars>>

\* start_session on self.whatsapp_client: if self.session_active: return True
StartSessionActive(c) ==
    /\ cpc[c] = "s_session"
    /\ session_active[gen]
    /\ cpc' = [cpc EXCEPT ![c] = "s_thread"]
    /\ UNCHANGED <<appVars, clientVars, procVars, cgen, workerVars, obsVars, wait_s, observed, unitVars, cyc, statusVars>>

\* start_session: _setup_driver launches the browser
StartSessionLaunch(c) ==
    /\ cpc[c] = "s_session"
    /\ ~session_active[gen]
    /\ SetupDriverOk(gen)
    /\ cgen' = [cgen EXCEPT ![c] = gen]
    /\ cpc' = [cpc EXCEPT ![c] = "s_auth"]
    /\ UNCHANGED <<appVars, session_active, procVars, workerVars, obsVars, wait_s, observed, unitVars, cyc, statusVars>>

\* start_session: _setup_driver fails, start_monitoring returns False
StartSessionNoDriver(c) ==
    /\ cpc[c] = "s_session"
    /\ ~session_active[gen]
    /\ cpc' = [cpc EXCEPT ![c] = "idle"]
    /\ lastStop' = FALSE
    /\ UNCHANGED <<appVars, clientVars, procVars, cgen, workerVars, sent, wait_s, observed, unitVars, cyc, statusVars>>

\* start_session: the chat list appears within the timeout
StartSessionAuthenticated(c) ==
    /\ cpc[c] = "s_auth"
    /\ driver[cgen[c]]
    /\ session_active' = [session_active EXCEPT ![cgen[c]] = TRUE]
    /\ cgen' = [cgen EXCEPT ![c] = 0]
    /\ cpc' = [cpc EXCEPT ![c] = "s_thread"]
    /\ UNCHANGED <<appVars, driver, launched, leaked, procVars, workerVars,
                   obsVars, wait_s, observed, unitVars, cyc, statusVars>>

\* start_session: the timeout elapses, or the driver is gone (exception):
\* return False, self.driver left as it is; start_monitoring returns False
StartSessionTimeout(c) ==
    /\ cpc[c] = "s_auth"
    /\ cgen' = [cgen EXCEPT ![c] = 0]
    /\ cpc' = [cpc EXCEPT ![c] = "idle"]
    /\ lastStop' = FALSE
    /\ UNCHANGED <<appVars, clientVars, procVars, workerVars, sent, wait_s, observed, unitVars, cyc, statusVars>>

NewWorker == CHOOSE w \in Workers :
                pc[w] = "unborn" /\ \A v \in Workers : pc[v] = "unborn" => w <= v

\* self.stop_event.clear(); self.monitoring_thread = Thread(...); start()
StartThread(c) ==
    /\ cpc[c] = "s_thread"
    /\ \E w \in Workers : pc[w] = "unborn"
    /\ stop_event' = FALSE
    /\ mthread' = NewWorker
    /\ pc' = [pc EXCEPT ![NewWorker] = "loop"]
    /\ cpc' = [cpc EXCEPT ![c] = "s_flag"]
    /\ UNCHANGED <<is_running, gen, clientVars, procVars, cgen, wgen, notified,
                   cycles, todo, cur, attempt, outcome, obsVars, wait_s, observed, unitVars, cyc, statusVars>>

\* self.is_running = True; return True
StartSetRunning(c) ==
    /\ cpc[c] = "s_flag"
    /\ is_running' = TRUE
    /\ cpc' = [cpc EXCEPT ![c] = "idle"]
    /\ lastStop' = FALSE
    /\ UNCHANGED <<stop_event, gen, mthread, clientVars, procVars, cgen, workerVars,
                   sent, wait_s, observed, unitVars, cyc, statusVars>>

\* -------------------------------------------- stop_monitoring (caller)
\* if not self.is_running: return
StopNotRunning(c) ==
    /\ cpc[c] = "idle"
    /\ ~is_running
    /\ lastStop' = TRUE
    /\ UNCHANGED <<appVars, clientVars, procVars, callerVars, workerVars, sent, wait_s, observed, unitVars, cyc, statusVars>>

\* self.stop_event.set()
StopSignal(c) ==
    /\ cpc[c] = "idle"
    /\ is_running
    /\ EventSet
    /\ cpc' = [cpc EXCEPT ![c] = "p_join"]
    /\ UNCHANGED <<is_running, gen, mthread, clientVars, procVars, cgen,
                   pc, wgen, cycles, todo, cur, attempt, outcome, obsVars, wait_s, observed, unitVars, cyc, statusVars>>

\* the monitoring thread is not alive (no join), or join returns because
\* the thread ended
StopJoined(c) ==
    /\ cpc[c] = "p_join"
    /\ (mthread = 0 \/ ~Alive(mthread))
    /\ cpc' = [cpc EXCEPT ![c] = "p_cleanup"]
    /\ UNCHANGED <<appVars, clientVars, procVars, cgen, workerVars, obsVars, wait_s, observed, unitVars, cyc, statusVars>>

\* join(timeout=10) returns with the thread still alive
StopJoinTimeout(c) ==
    /\ cpc[c] = "p_join"
    /\ mthread # 0 /\ Alive(mthread)
    /\ cpc' = [cpc EXCEPT ![c] = "p_cleanup"]
    /\ UNCHANGED <<appVars, clientVars, procVars, cgen, workerVars, obsVars, wait_s, observed, unitVars, cyc, statusVars>>

\* _cleanup: self.whatsapp_client.stop_session()
CleanupSession(c) ==
    /\ cpc[c] = "p_cleanup"
    /\ StopSession(gen)
    /\ cpc' = [cpc EXCEPT ![c] = "p_cleanup2"]
    /\ UNCHANGED <<appVars, procVars, cgen, workerVars, obsVars, wait_s, observed, unitVars, cyc, statusVars>>

\* _cleanup: self.email_processor.stop_monitoring(): stop_flag.set()
CleanupProcessor(c) ==
    /\ cpc[c] = "p_cleanup2"
    /\ stop_flag' = [stop_flag EXCEPT ![gen] = TRUE]
    /\ cpc' = [cpc EXCEPT ![c] = "p_flag"]
    /\ UNCHANGED <<appVars, clientVars, processed_ids, ledger, cgen, workerVars,
                   obsVars, wait_s, observed, unitVars, cyc, statusVars>>

\* self.is_running = False
StopClearRunning(c) ==
    /\ cpc[c] = "p_flag"
    /\ is_running' = FALSE
    /\ cpc' = [cpc EXCEPT ![c] = "idle"]
    /\ lastStop' = TRUE
    /\ UNCHANGED <<stop_event, gen, mthread, clientVars, procVars, cgen, workerVars,
                   sent, wait_s, observed, unitVars, cyc, statusVars>>

\* ------------------------------------------ _monitoring_worker (worker)
\* while not self.stop_event.is_set(), on the thread's first pass
WorkerLoop(w) ==
    /\ pc[w] = "loop"
    /\ pc' = [pc EXCEPT ![w] = IF stop_event THEN "exit" ELSE "probe"]
    /\ cycles' = [cycles EXCEPT ![w] = IF stop_event THEN @ ELSE @ + 1]
    /\ UNCHANGED <<appVars, clientVars, procVars, callerVars, wgen, notified,
                   todo, cur, attempt, outcome, obsVars, wait_s, observed, unitVars, statusVars>>
    /\ Observe(w)

\* is_session_active: if not self.driver: session_active = False
ProbeNoDriver(w) ==
    /\ pc[w] = "probe"
    /\ ~driver[gen]
    /\ session_active' = [session_active EXCEPT ![gen] = FALSE]
    /\ pc' = [pc EXCEPT ![w] = "reconnect"]
    /\ UNCHANGED <<appVars, driver, launched, leaked, procVars, callerVars, wgen,
                   notified, cycles, todo, cur, attempt, outcome, obsVars, wait_s, observed, unitVars, statusVars>>
    /\ Observe(w)

\* is_session_active: _wait_for_element(chat_list, timeout=5) begins
ProbeBegin(w) ==
    /\ pc[w] = "probe"
    /\ driver[gen]
    /\ wgen' = [wgen EXCEPT ![w] = gen]
    /\ pc' = [pc EXCEPT ![w] = "probing"]
    /\ UNCHANGED <<appVars, clientVars, procVars, callerVars, notified, cycles,
                   todo, cur, attempt, outcome, obsVars, wait_s, observed, unitVars, statusVars>>
    /\ Observe(w)

\* is_session_active: self.session_active = is_active (False on exception);
\* the element was or was not found while the wait ran
ProbeEnd(w) ==
    /\ pc[w] = "probing"
    /\ \E is_active \in BOOLEAN :
        /\ session_active' = [session_active EXCEPT ![wgen[w]] = is_active]
        /\ pc' = [pc EXCEPT ![w] = IF is_active THEN "poll" ELSE "reconnect"]
    /\ UNCHANGED <<appVars, driver, launched, leaked, procVars, callerVars, wgen,
                   notified, cycles, todo, cur, attempt, outcome, obsVars, wait_s, observed, unitVars, statusVars>>
    /\ Observe(w)

\* reconnection start_session: if self.session_active: return True
ReconnectActive(w) ==
    /\ pc[w] = "reconnect"
    /\ session_active[gen]
    /\ pc' = [pc EXCEPT ![w] = "poll"]
    /\ UNCHANGED <<appVars, clientVars, procVars, callerVars, wgen, notified,
                   cycles, todo, cur, attempt, outcome, obsVars, wait_s, observed, unitVars, statusVars>>
    /\ Observe(w)

\* reconnection start_session: _setup_driver launches a browser
ReconnectLaunch(w) ==
    /\ pc[w] = "reconnect"
    /\ ~session_active[gen]
    /\ SetupDriverOk(gen)
    /\ wgen' = [wgen EXCEPT ![w] = gen]
    /\ pc' = [pc EXCEPT ![w] = "reauth"]
    /\ UNCHANGED <<appVars, session_active, procVars, callerVars, notified, cycles,
                   todo, cur, attempt, outcome, obsVars, wait_s, observed, unitVars, statusVars>>
    /\ Observe(w)

\* reconnection start_session: _setup_driver fails; the worker breaks
ReconnectNoDriver(w) ==
    /\ pc[w] = "reconnect"
    /\ ~session_active[gen]
    /\ pc' = [pc EXCEPT ![w] = "exit"]
    /\ UNCHANGED <<appVars, clientVars, procVars, callerVars, wgen, notified,
                   cycles, todo, cur, attempt, outcome, obsVars, wait_s, observed, unitVars, statusVars>>
    /\ Observe(w)

\* reconnection start_session: authenticated
ReconnectAuthenticated(w) ==
    /\ pc[w] = "reauth"
    /\ driver[wgen[w]]
    /\ session_active' = [session_active EXCEPT ![wgen[w]] = TRUE]
    /\ pc' = [pc EXCEPT ![w] = "poll"]
    /\ UNCHANGED <<appVars, driver, launched, leaked, procVars, callerVars, wgen,
                   notified, cycles, todo, cur, attempt, outcome, obsVars, wait_s, observed, unitVars, statusVars>>
    /\ Observe(w)

\* a worker that calls start_session again after a failed reconnection
ReconnectTimeoutRetry(w) ==
    /\ pc[w] = "reauth"
    /\ pc' = [pc EXCEPT ![w] = "reconnect"]
    /\ UNCHANGED <<appVars, clientVars, procVars, callerVars, wgen, notified,
                   cycles, todo, cur, attempt, outcome, obsVars, wait_s, observed, unitVars, statusVars>>
    /\ Observe(w)

\* reconnection start_session: timeout or exception; the worker breaks
ReconnectTimeout(w) ==
    /\ pc[w] = "reauth"
    /\ pc' = [pc EXCEPT ![w] = "exit"]
    /\ UNCHANGED <<appVars, clientVars, procVars, callerVars, wgen, notified,
                   cycles, todo, cur, attempt, outcome, obsVars, wait_s, observed, unitVars, statusVars>>
    /\ Observe(w)

\* ------------------------------------------------------ process_emails
\* the locals of the item in hand are dropped
NoItem(w) ==
    /\ cur' = [cur EXCEPT ![w] = 0]
    /\ attempt' = [attempt EXCEPT ![w] = 0]
    /\ outcome' = [outcome EXCEPT ![w] = "None"]

\* no connection, search failed, or no unread mail: return 0
PollNothing(w) ==
    /\ pc[w] = "poll"
    /\ wgen' = [wgen EXCEPT ![w] = gen]
    /\ pc' = [pc EXCEPT ![w] = "sleep"]
    /\ UNCHANGED <<appVars, clientVars, procVars, callerVars, notified, cycles,
                   todo, cur, attempt, outcome, obsVars, wait_s, observed, unitVars, statusVars>>
    /\ Observe(w)

\* the ids the loop visits: the last max_emails_per_run of the search
\* result, newest first
Batch(unseen) == Reversed(LastN(Ascending(unseen), max_emails_per_run))

\* mail.search(None, 'UNSEEN') returns some unread ids
PollBatch(w) ==
    /\ pc[w] = "poll"
    /\ \E unseen \in (SUBSET Ids) \ {{}} :
          /\ todo' = [todo EXCEPT ![w] = Batch(unseen)]
          /\ wgen' = [wgen EXCEPT ![w] = gen]
          /\ pc' = [pc EXCEPT ![w] = "item"]
          /\ UNCHANGED <<appVars, clientVars, procVars, callerVars, notified,
                         cycles, cur, attempt, outcome, obsVars, wait_s,
                         observed, unitVars, statusVars>>
          /\ ObservePoll(w, unseen)

\* the for loop is exhausted
BatchDone(w) ==
    /\ pc[w] = "item"
    /\ todo[w] = <<>>
    /\ pc' = [pc EXCEPT ![w] = "sleep"]
    /\ UNCHANGED <<appVars, clientVars, procVars, callerVars, wgen, notified,
                   cycles, todo, cur, attempt, outcome, obsVars, wait_s, observed, unitVars, statusVars>>
    /\ Observe(w)

\* if self.stop_flag.is_set(): break
StopFlagBreak(w) ==
    /\ pc[w] = "item"
    /\ todo[w] # <<>>
    /\ stop_flag[wgen[w]]
    /\ pc' = [pc EXCEPT ![w] = "sleep"]
    /\ UNCHANGED <<appVars, clientVars, procVars, callerVars, wgen, notified,
                   cycles, todo, cur, attempt, outcome, obsVars, wait_s, observed, unitVars, statusVars>>
    /\ Observe(w)

\* a loop that never finds an id in the set
IsProcessedNever(k, msg_id) == FALSE

\* if msg_id_str in self.processed_ids
IsProcessed(k, msg_id) == Decode(msg_id) \in processed_ids[k]

\* continue: the id is in processed_ids
SkipProcessed(w) ==
    /\ pc[w] = "item"
    /\ todo[w] # <<>>
    /\ ~stop_flag[wgen[w]]
    /\ IsProcessed(wgen[w], Head(todo[w]))
    /\ todo' = [todo EXCEPT ![w] = Tail(@)]
    /\ cur' = [cur EXCEPT ![w] = Head(todo[w])]
    /\ UNCHANGED <<appVars, clientVars, procVars, callerVars, pc, wgen, notified,
                   cycles, attempt, outcome, obsVars, wait_s, observed, unitVars, statusVars>>
    /\ Observe(w)

\* continue: mail.fetch failed, or parsing the message raised
FetchFailed(w) ==
    /\ pc[w] = "item"
    /\ todo[w] # <<>>
    /\ ~stop_flag[wgen[w]]
    /\ ~IsProcessed(wgen[w], Head(todo[w]))
    /\ todo' = [todo EXCEPT ![w] = Tail(@)]
    /\ cur' = [cur EXCEPT ![w] = Head(todo[w])]
    /\ UNCHANGED <<appVars, clientVars, procVars, callerVars, pc, wgen, notified,
                   cycles, attempt, outcome, obsVars, wait_s, observed, unitVars, statusVars>>
    /\ Observe(w)

\* the message is fetched and rendered; send_to_saved_number comes next
TakeItem(w) ==
    /\ pc[w] = "item"
    /\ todo[w] # <<>>
    /\ ~stop_flag[wgen[w]]
    /\ ~IsProcessed(wgen[w], Head(todo[w]))
    /\ todo' = [todo EXCEPT ![w] = Tail(@)]
    /\ cur' = [cur EXCEPT ![w] = Head(todo[w])]
    /\ pc' = [pc EXCEPT ![w] = "send"]
    /\ UNCHANGED <<appVars, clientVars, procVars, callerVars, wgen, notified,
                   cycles, attempt, outcome, obsVars, wait_s, observed, unitVars, statusVars>>
    /\ Observe(w)

\* -------------------------------------------------------- send_message
\* a send_message without its guard
SessionUsableUnchecked(k) == TRUE

\* if not self.session_active or not self.driver: return False
SessionUsable(k) == session_active[k] /\ driver[k]

\* a loop that records whatever send returned
SendSucceededAlways(o) == TRUE

\* send_message's return value: True after submit, whatever the scan for
\* message containers found ("Consider it successful")
SendSucceeded(o) == o \in {"Sent", "VerificationUnconfirmed"}

\* a loop that goes on to the next item after a failed send
ReturnedContinue(w, o) ==
    /\ outcome' = [outcome EXCEPT ![w] = o]
    /\ attempt' = [attempt EXCEPT ![w] = 0]
    /\ pc' = [pc EXCEPT ![w] = IF SendSucceeded(o) THEN "record" ELSE "item"]

\* process_emails after send returned: if success: _mark_processed ...
\* else: break
Returned(w, o) ==
    /\ outcome' = [outcome EXCEPT ![w] = o]
    /\ attempt' = [attempt EXCEPT ![w] = 0]
    /\ pc' = [pc EXCEPT ![w] = IF SendSucceeded(o) THEN "record" ELSE "sleep"]

\* send_to_saved_number is called; the guard of send_message
SendGuard(w) ==
    /\ pc[w] = "send"
    /\ sent' = sent \cup {cur[w]}
    /\ IF SessionUsable(wgen[w])
       THEN /\ pc' = [pc EXCEPT ![w] = "attempt"]
            /\ UNCHANGED <<outcome, attempt>>
       ELSE Returned(w, "SessionUnavailable")
    /\ UNCHANGED <<appVars, clientVars, procVars, callerVars, wgen, notified,
                   cycles, todo, cur, lastStop, wait_s, observed, unitVars, statusVars>>
    /\ Observe(w)

\* the attempt ends without a result: the next attempt, or the failure
\* outcome when this was the last one
RetryOr(w, o) ==
    IF attempt[w] < MaxRetries - 1
    THEN /\ attempt' = [attempt EXCEPT ![w] = @ + 1]
         /\ UNCHANGED <<pc, outcome>>
    ELSE Returned(w, o)

\* self.driver is None (stop_session ran): self.driver.get raises; on the
\* last attempt the handler's save_screenshot raises too and the exception
\* leaves send_message, to be caught by process_emails (continue)
AttemptNoDriver(w) ==
    /\ pc[w] = "attempt"
    /\ ~driver[wgen[w]]
    /\ IF attempt[w] < MaxRetries - 1
       THEN /\ attempt' = [attempt EXCEPT ![w] = @ + 1]
            /\ UNCHANGED <<pc, outcome, cur>>
       ELSE /\ NoItem(w)
            /\ pc' = [pc EXCEPT ![w] = "item"]
    /\ UNCHANGED <<appVars, clientVars, procVars, callerVars, wgen, notified,
                   cycles, todo, obsVars, wait_s, observed, unitVars, statusVars>>
    /\ Observe(w)

\* navigation, then a visible error element: return False at once
AttemptErrorMarker(w) ==
    /\ pc[w] = "attempt"
    /\ driver[wgen[w]]
    /\ Returned(w, "InputNotFound")
    /\ UNCHANGED <<appVars, clientVars, procVars, callerVars, wgen, notified,
                   cycles, todo, cur, obsVars, wait_s, observed, unitVars, statusVars>>
    /\ Observe(w)

\* navigation, then the attempt fails: no input box (InputNotFound), the
\* text could not be typed or injected or a command raised (Failed),
\* neither the send button nor Enter worked (SubmitFailed)
AttemptFailed(w) ==
    /\ pc[w] = "attempt"
    /\ driver[wgen[w]]
    /\ \E o \in {"InputNotFound", "Failed", "SubmitFailed"} : RetryOr(w, o)
    /\ UNCHANGED <<appVars, clientVars, procVars, callerVars, wgen, notified,
                   cycles, todo, cur, obsVars, wait_s, observed, unitVars, statusVars>>
    /\ Observe(w)

\* navigation, input found, text entered, submitted; the scan for message
\* containers finds some or none, and send_message returns True
AttemptSubmitted(w) ==
    /\ pc[w] = "attempt"
    /\ driver[wgen[w]]
    /\ \E found \in BOOLEAN :
          Returned(w, IF found THEN "Sent" ELSE "VerificationUnconfirmed")
    /\ UNCHANGED <<appVars, clientVars, procVars, callerVars, wgen, notified,
                   cycles, todo, cur, obsVars, wait_s, observed, unitVars, statusVars>>
    /\ Observe(w)

\* ----------------------------------------------------- _mark_processed
\* a write that never reaches the file
AppendNothing(file, email_id) == file

\* f.write(f"{datetime.now().isoformat()},{email_id}\n")
AppendLine(file, email_id) == file \cup {FormatLine(email_id)}

\* the line is appended to the ledger
RecordAppend(w) ==
    /\ pc[w] = "record"
    /\ ledger' = AppendLine(ledger, Decode(cur[w]))
    /\ pc' = [pc EXCEPT ![w] = "add"]
    /\ UNCHANGED <<appVars, clientVars, processed_ids, stop_flag, callerVars, wgen,
                   notified, cycles, todo, cur, attempt, outcome, obsVars, wait_s, observed, unitVars, statusVars>>
    /\ Observe(w)

\* open or write raises: logged, the id is not added to the set
RecordAppendFails(w) ==
    /\ pc[w] = "record"
    /\ NoItem(w)
    /\ pc' = [pc EXCEPT ![w] = "pace"]
    /\ UNCHANGED <<appVars, clientVars, procVars, callerVars, wgen, notified,
                   cycles, todo, obsVars, wait_s, observed, unitVars, statusVars>>
    /\ Observe(w)

\* a loop that takes the next item right after recording
RecordAddNoPace(w) ==
    /\ pc[w] = "add"
    /\ processed_ids' = [processed_ids EXCEPT ![wgen[w]] = @ \cup {Decode(cur[w])}]
    /\ NoItem(w)
    /\ pc' = [pc EXCEPT ![w] = "item"]
    /\ UNCHANGED <<appVars, clientVars, stop_flag, ledger, callerVars, wgen,
                   notified, cycles, todo, obsVars, wait_s, observed, unitVars, statusVars>>
    /\ Observe(w)

\* self.processed_ids.add(email_id)
RecordAdd(w) ==
    /\ pc[w] = "add"
    /\ processed_ids' = [processed_ids EXCEPT ![wgen[w]] = @ \cup {Decode(cur[w])}]
    /\ NoItem(w)
    /\ pc' = [pc EXCEPT ![w] = "pace"]
    /\ UNCHANGED <<appVars, clientVars, stop_flag, ledger, callerVars, wgen,
                   notified, cycles, todo, obsVars, wait_s, observed, unitVars, statusVars>>
    /\ Observe(w)

\* self.stop_flag.wait(delay) returns False: continue
PaceElapsed(w) ==
    /\ pc[w] = "pace"
    /\ ~stop_flag[wgen[w]]
    /\ pc' = [pc EXCEPT ![w] = "item"]
    /\ UNCHANGED <<appVars, clientVars, procVars, callerVars, wgen, notified,
                   cycles, todo, cur, attempt, outcome, obsVars, wait_s, observed, unitVars, statusVars>>
    /\ Observe(w)

\* self.stop_flag.wait(delay) returns True: break
PaceStopped(w) ==
    /\ pc[w] = "pace"
    /\ stop_flag[wgen[w]]
    /\ pc' = [pc EXCEPT ![w] = "sleep"]
    /\ UNCHANGED <<appVars, clientVars, procVars, callerVars, wgen, notified,
                   cycles, todo, cur, attempt, outcome, obsVars, wait_s, observed, unitVars, statusVars>>
    /\ Observe(w)

\* ------------------------------------------------- inter-cycle sleep
\* self.stop_event.wait(check_interval) is called: True at once when the
\* flag is set, else the thread blocks
SleepEnter(w) ==
    /\ pc[w] = "sleep"
    /\ pc' = [pc EXCEPT ![w] = IF stop_event THEN "exit" ELSE "sleeping"]
    /\ todo' = [todo EXCEPT ![w] = <<>>]
    /\ NoItem(w)
    /\ wait_s' = [wait_s EXCEPT ![w] = CheckInterval]
    /\ UNCHANGED <<appVars, clientVars, procVars, callerVars, wgen, notified,
                   cycles, obsVars, observed, unitVars, statusVars>>
    /\ Observe(w)

\* a wait that reads the flag when it wakes instead of having been woken
WaitResultFlag(w) == stop_event

\* what the blocked wait returns: True when set() woke it
WaitResult(w) == notified[w]

\* the wait returns True: break
SleepWoken(w) ==
    /\ pc[w] = "sleeping"
    /\ WaitResult(w)
    /\ pc' = [pc EXCEPT ![w] = "exit"]
    /\ notified' = [notified EXCEPT ![w] = FALSE]
    /\ UNCHANGED <<appVars, clientVars, procVars, callerVars, wgen,
                   cycles, todo, cur, attempt, outcome, obsVars, wait_s, observed, unitVars, statusVars>>
    /\ Observe(w)

\* the wait times out (False); while not self.stop_event.is_set()
SleepTimeout(w) ==
    /\ pc[w] = "sleeping"
    /\ ~WaitResult(w)
    /\ cycles[w] < MaxCycles
    /\ pc' = [pc EXCEPT ![w] = IF stop_event THEN "exit" ELSE "probe"]
    /\ cycles' = [cycles EXCEPT ![w] = IF stop_event THEN @ ELSE @ + 1]
    /\ notified' = [notified EXCEPT ![w] = FALSE]
    /\ UNCHANGED <<appVars, clientVars, procVars, callerVars, wgen,
                   todo, cur, attempt, outcome, obsVars, wait_s, observed, unitVars, statusVars>>
    /\ Observe(w)

\* finally: self.is_running = False; the thread ends
WorkerExit(w) ==
    /\ pc[w] = "exit"
    /\ is_running' = FALSE
    /\ pc' = [pc EXCEPT ![w] = "dead"]
    /\ UNCHANGED <<stop_event, gen, mthread, clientVars, procVars, callerVars,
                   wgen, notified, cycles, todo, cur, attempt, outcome, obsVars, wait_s, observed, unitVars, statusVars>>
    /\ Observe(w)

\* a handler that ends the thread whenever a cycle raises
CycleRaisesFatal(w) ==
    /\ pc[w] \in {"probe", "reconnect", "poll"}
    /\ pc' = [pc EXCEPT ![w] = "exit"]
    /\ todo' = [todo EXCEPT ![w] = <<>>]
    /\ NoItem(w)
    /\ wait_s' = [wait_s EXCEPT ![w] = ErrorDelay]
    /\ UNCHANGED <<appVars, clientVars, procVars, callerVars, wgen, notified,
                   cycles, obsVars, observed, unitVars, statusVars>>
    /\ Observe(w)

\* an exception leaves one of the calls of the cycle (is_session_active,
\* start_session, process_emails): except Exception logs it and calls
\* self.stop_event.wait(60), True at once when the flag is set (break),
\* else the thread blocks
CycleRaises(w) ==
    /\ pc[w] \in {"probe", "reconnect", "poll"}
    /\ pc' = [pc EXCEPT ![w] = IF stop_event THEN "exit" ELSE "sleeping"]
    /\ todo' = [todo EXCEPT ![w] = <<>>]
    /\ NoItem(w)
    /\ wait_s' = [wait_s EXCEPT ![w] = ErrorDelay]
    /\ UNCHANGED <<appVars, clientVars, procVars, callerVars, wgen, notified,
                   cycles, obsVars, observed, unitVars, statusVars>>
    /\ Observe(w)

\* ------------------------------------------------------- specification
CallerStep(c) ==
    \/ StartAlreadyRunning(c)
    \/ InitializeComponents(c)
    \/ StartSessionActive(c)
    \/ StartSessionLaunch(c)
    \/ StartSessionNoDriver(c)
    \/ StartSessionAuthenticated(c)
    \/ StartSessionTimeout(c)
    \/ StartThread(c)
    \/ StartSetRunning(c)
    \/ StopNotRunning(c)
    \/ StopSignal(c)
    \/ StopJoined(c)
    \/ StopJoinTimeout(c)
    \/ CleanupSession(c)
    \/ CleanupProcessor(c)
    \/ StopClearRunning(c)

WorkerStep(w) ==
    \/ WorkerLoop(w)
    \/ ProbeNoDriver(w)
    \/ ProbeBegin(w)
    \/ ProbeEnd(w)
    \/ ReconnectActive(w)
    \/ ReconnectLaunch(w)
    \/ ReconnectNoDriver(w)
    \/ ReconnectAuthenticated(w)
    \/ ReconnectTimeout(w)
    \/ PollNothing(w)
    \/ PollBatch(w)
    \/ BatchDone(w)
    \/ StopFlagBreak(w)
    \/ SkipProcessed(w)
    \/ FetchFailed(w)
    \/ TakeItem(w)
    \/ SendGuard(w)
    \/ AttemptNoDriver(w)
    \/ AttemptErrorMarker(w)
    \/ AttemptFailed(w)
    \/ AttemptSubmitted(w)
    \/ RecordAppend(w)
    \/ RecordAppendFails(w)
    \/ RecordAdd(w)
    \/ PaceElapsed(w)
    \/ PaceStopped(w)
    \/ SleepEnter(w)
    \/ SleepWoken(w)
    \/ SleepTimeout(w)
    \/ WorkerExit(w)

Next ==
    \/ \E c \in SerialCallers : CallerStep(c)
    \/ \E w \in Workers : WorkerStep(w)

Spec == Init /\ [][Next]_vars

\* ---------------------------------------------- get_status (GUI thread)
\* the dict is built in order: 'is_running': self.is_running comes first
StatusCall ==
    /\ spc = "idle"
    /\ spc' = "call"
    /\ status' = [is_running |-> is_running]
    /\ UNCHANGED <<appVars, clientVars, procVars, callerVars, workerVars, obsVars,
                   cyc, wait_s, observed, unitVars, sgen>>

\* the rest of the dict, with whatsapp_active as is_session_active gave it
StatusDict(active) ==
    [is_running |-> status.is_running, whatsapp_active |-> active,
     email_configured |-> TRUE, whatsapp_configured |-> TRUE]

\* 'whatsapp_active': ... if self.whatsapp_client else False
StatusNoClient ==
    /\ spc = "call"
    /\ gen = 0
    /\ spc' = "idle"
    /\ status' = StatusDict(FALSE)
    /\ UNCHANGED <<appVars, clientVars, procVars, callerVars, workerVars, obsVars,
                   cyc, wait_s, observed, unitVars, sgen>>

\* is_session_active: if not self.driver: self.session_active = False
StatusProbeNoDriver ==
    /\ spc = "call"
    /\ gen # 0 /\ ~driver[gen]
    /\ session_active' = [session_active EXCEPT ![gen] = FALSE]
    /\ spc' = "idle"
    /\ status' = StatusDict(FALSE)
    /\ UNCHANGED <<appVars, driver, launched, leaked, procVars, callerVars,
                   workerVars, obsVars, cyc, wait_s, observed, unitVars, sgen>>

\* is_session_active: _wait_for_element(chat_list, timeout=5) on the driver
StatusProbeBegin ==
    /\ spc = "call"
    /\ gen # 0 /\ driver[gen]
    /\ sgen' = gen
    /\ spc' = "probing"
    /\ UNCHANGED <<appVars, clientVars, procVars, callerVars, workerVars, obsVars,
                   cyc, wait_s, observed, unitVars, status>>

\* is_session_active: self.session_active = is_active (False on exception)
StatusProbeEnd ==
    /\ spc = "probing"
    /\ \E is_active \in BOOLEAN :
          /\ session_active' = [session_active EXCEPT ![sgen] = is_active]
          /\ status' = StatusDict(is_active)
    /\ sgen' = 0
    /\ spc' = "idle"
    /\ UNCHANGED <<appVars, driver, launched, leaked, procVars, callerVars,
                   workerVars, obsVars, cyc, wait_s, observed, unitVars>>

StatusStep ==
    \/ StatusCall
    \/ StatusNoClient
    \/ StatusProbeNoDriver
    \/ StatusProbeBegin
    \/ StatusProbeEnd

\* ------------------------------------------------- one start (CLI)
\* the command line's caller (--start): start_monitoring once, then
\* stop_monitoring on the way out; the components are built once
CliStep(c) ==
    \/ StartAlreadyRunning(c)
    \/ (gen = 0 /\ InitializeComponents(c))
    \/ StartSessionLaunch(c)
    \/ StartSessionNoDriver(c)
    \/ StartSessionAuthenticated(c)
    \/ StartSessionTimeout(c)
    \/ StartThread(c)
    \/ StartSetRunning(c)
    \/ StopNotRunning(c)
    \/ StopSignal(c)
    \/ StopJoined(c)
    \/ StopJoinTimeout(c)
    \/ CleanupSession(c)
    \/ CleanupProcessor(c)
    \/ StopClearRunning(c)

\* the worker beside that single caller: nothing else sets session_active
\* between its health check and its reconnection
CliWorkerStep(w) ==
    \/ WorkerLoop(w)
    \/ ProbeNoDriver(w)
    \/ ProbeBegin(w)
    \/ ProbeEnd(w)
    \/ ReconnectLaunch(w)
    \/ ReconnectNoDriver(w)
    \/ ReconnectAuthenticated(w)
    \/ ReconnectTimeout(w)
    \/ PollNothing(w)
    \/ PollBatch(w)
    \/ BatchDone(w)
    \/ StopFlagBreak(w)
    \/ SkipProcessed(w)
    \/ FetchFailed(w)
    \/ TakeItem(w)
    \/ SendGuard(w)
    \/ AttemptNoDriver(w)
    \/ AttemptErrorMarker(w)
    \/ AttemptFailed(w)
    \/ AttemptSubmitted(w)
    \/ RecordAppend(w)
    \/ RecordAppendFails(w)
    \/ RecordAdd(w)
    \/ PaceElapsed(w)
    \/ PaceStopped(w)
    \/ SleepEnter(w)
    \/ SleepWoken(w)
    \/ SleepTimeout(w)
    \/ WorkerExit(w)

InitCycle == Constructed(TRUE, 1..BatchCeiling)

NextCycle ==
    \/ \E c \in SerialCallers : CliStep(c)
    \/ \E w \in Workers : CliWorkerStep(w)

SpecCycle == InitCycle /\ [][NextCycle]_vars

\* ------------------------------- one start, cycles that may raise
NextRaise ==
    \/ \E c \in SerialCallers : CliStep(c)
    \/ \E w \in Workers : CliWorkerStep(w)
    \/ \E w \in Workers : CycleRaises(w)

SpecRaise == Init /\ [][NextRaise]_vars

\* ----------------------------------------- one start, status polled (GUI)
NextStatus ==
    \/ \E c \in SerialCallers : CliStep(c)
    \/ \E w \in Workers : WorkerStep(w)
    \/ StatusStep

SpecStatus == Init /\ [][NextStatus]_vars

\* ------------------------------------------------- _wait_for_element
\* what the page holds for one selector during the call: no match
\* ("absent"), a match that is not displayed ("hidden"), a displayed match
\* that is not enabled ("disabled"), a displayed and enabled match
\* ("visible"), a match that is gone from the DOM when is_displayed is
\* called on it ("stale")
Matches == {"absent", "hidden", "disabled", "visible", "stale"}

MaxSelectors == 3   \* selectors in a list

SelectorLists ==
    UNION { [1..n -> Matches] : n \in 1..MaxSelectors }

\* wait.until(...) returns an element before the timeout:
\* presence_of_element_located takes any match, element_to_be_clickable
\* one that is displayed and enabled
Until(m, click) ==
    IF click THEN m \in {"visible", "stale"} ELSE m # "absent"

\* element.is_displayed() of the element wait.until returned ("raise":
\* StaleElementReferenceException)
IsDisplayed(m) ==
    CASE m = "stale" -> "raise"
      [] m \in {"visible", "disabled"} -> "True"
      [] OTHER -> "False"

\* _wait_for_element(selectors, timeout, clickable) is called
WaitForElement ==
    /\ sel_i = 0
    /\ element = "none"
    /\ \E s \in SelectorLists, c \in BOOLEAN :
          /\ selectors' = s
          /\ clickable' = c
    /\ sel_i' = 1
    /\ UNCHANGED <<appVars, clientVars, procVars, callerVars, workerVars, obsVars,
                   cyc, wait_s, observed, statusVars, configVars, sendVars,
                   textVars,
                   slices, element>>

\* the selector in hand
Selector == selectors[sel_i]

InLoop == sel_i \in 1..Len(selectors) /\ element = "none"

\* a loop that gives up after the first selector
SelectorTimeoutGivesUp ==
    /\ InLoop
    /\ ~Until(Selector, clickable)
    /\ slices' = slices + 1
    /\ sel_i' = Len(selectors) + 1
    /\ UNCHANGED <<appVars, clientVars, procVars, callerVars, workerVars, obsVars,
                   cyc, wait_s, observed, statusVars, configVars, sendVars,
                   textVars,
                   selectors, clickable, element>>

\* except TimeoutException: continue
SelectorTimeout ==
    /\ InLoop
    /\ ~Until(Selector, clickable)
    /\ slices' = slices + 1
    /\ sel_i' = sel_i + 1
    /\ UNCHANGED <<appVars, clientVars, procVars, callerVars, workerVars, obsVars,
                   cyc, wait_s, observed, statusVars, configVars, sendVars,
                   textVars,
                   selectors, clickable, element>>

\* the element is found and is_displayed() is False: the next selector,
\* at once
SelectorNotDisplayed ==
    /\ InLoop
    /\ Until(Selector, clickable)
    /\ IsDisplayed(Selector) = "False"
    /\ sel_i' = sel_i + 1
    /\ UNCHANGED <<appVars, clientVars, procVars, callerVars, workerVars, obsVars,
                   cyc, wait_s, observed, statusVars, configVars, sendVars,
                   textVars,
                   selectors, clickable, slices, element>>

\* if element.is_displayed(): return element
SelectorReturned ==
    /\ InLoop
    /\ Until(Selector, clickable)
    /\ IsDisplayed(Selector) = "True"
    /\ element' = "element"
    /\ UNCHANGED <<appVars, clientVars, procVars, callerVars, workerVars, obsVars,
                   cyc, wait_s, observed, statusVars, configVars, sendVars,
                   textVars,
                   selectors, clickable, sel_i, slices>>

\* is_displayed() raises: only TimeoutException is caught, the exception
\* leaves _wait_for_element
SelectorRaises ==
    /\ InLoop
    /\ Until(Selector, clickable)
    /\ IsDisplayed(Selector) = "raise"
    /\ element' = "raised"
    /\ UNCHANGED <<appVars, clientVars, procVars, callerVars, workerVars, obsVars,
                   cyc, wait_s, observed, statusVars, configVars, sendVars,
                   textVars,
                   selectors, clickable, sel_i, slices>>

\* the loop is exhausted: return None
SelectorsExhausted ==
    /\ sel_i = Len(selectors) + 1
    /\ element = "none"
    /\ element' = "None"
    /\ UNCHANGED <<appVars, clientVars, procVars, callerVars, workerVars, obsVars,
                   cyc, wait_s, observed, statusVars, configVars, sendVars,
                   textVars,
                   selectors, clickable, sel_i, slices>>

NextLocate ==
    \/ WaitForElement
    \/ SelectorTimeout
    \/ SelectorNotDisplayed
    \/ SelectorReturned
    \/ SelectorRaises
    \/ SelectorsExhausted

SpecLocate == Init /\ [][NextLocate]_vars

\* ------------------------------------------------- _clean_message_text
\* Texts are sequences of code points. MaxText bounds the argument's length.
MaxText == 3

\* the characters arguments are made of: space, newline, "a", "?", "[",
\* the check mark and the envelope of the table, and two characters outside
\* it, a grinning face (above 0xFFFF) and a heavy heart (below)
Chars == {32, 10, 97, 63, 91, 9989, 128231, 128512, 10084}

Messages == UNION {[1..n -> Chars] : n \in 0..MaxText}

\* emoji_replacements, in the dict's order: <<emoji, replacement>>
emoji_replacements ==
    << <<129514, <<91, 84, 69, 83, 84, 93>> >>,
       <<129302, <<91, 66, 79, 84, 93>> >>,
       <<9989, <<91, 79, 75, 93>> >>,
       <<10060, <<91, 69, 82, 82, 79, 82, 93>> >>,
       <<128231, <<91, 69, 77, 65, 73, 76, 93>> >>,
       <<128241, <<91, 80, 72, 79, 78, 69, 93>> >>,
       <<128680, <<91, 85, 82, 71, 69, 78, 84, 93>> >>,
       <<128172, <<91, 77, 83, 71, 93>> >>,
       <<128276, <<91, 65, 76, 69, 82, 84, 93>> >>,
       <<9200, <<91, 84, 73, 77, 69, 93>> >>,
       <<128202, <<91, 68, 65, 84, 65, 93>> >>,
       <<127919, <<91, 84, 65, 82, 71, 69, 84, 93>> >> >>

\* str.replace(emoji, replacement), the emoji being one character
RECURSIVE Replace(_, _, _)
Replace(s, emoji, replacement) ==
    IF s = <<>> THEN <<>>
    ELSE (IF Head(s) = emoji THEN replacement ELSE <<Head(s)>>)
         \o Replace(Tail(s), emoji, replacement)

\* the loop over emoji_replacements.items(), from entry i on
RECURSIVE ReplaceFrom(_, _)
ReplaceFrom(s, i) ==
    IF i > Len(emoji_replacements) THEN s
    ELSE ReplaceFrom(Replace(s, emoji_replacements[i][1], emoji_replacements[i][2]),
                     i + 1)

\* the loop that keeps the characters of the basic plane and writes "?"
\* for the others
RECURSIVE KeepBMP(_)
KeepBMP(s) ==
    IF s = <<>> THEN <<>>
    ELSE <<(IF Head(s) <= 65535 THEN Head(s) ELSE 63)>> \o KeepBMP(Tail(s))

\* str.isspace() of one character
IsSpace(c) ==
    c \in (9..13) \cup (28..32) \cup {133, 160, 5760} \cup (8192..8202)
          \cup {8232, 8233, 8239, 8287, 12288}

RECURSIVE LStrip(_)
LStrip(s) == IF s # <<>> /\ IsSpace(Head(s)) THEN LStrip(Tail(s)) ELSE s

RECURSIVE RStrip(_)
RStrip(s) ==
    IF s # <<>> /\ IsSpace(s[Len(s)]) THEN RStrip(SubSeq(s, 1, Len(s) - 1)) ELSE s

\* str.strip()
Strip(s) == RStrip(LStrip(s))

\* _clean_message_text with the filter run before the table
CleanFilterFirst(m) ==
    IF m = <<>> THEN <<>> ELSE Strip(ReplaceFrom(KeepBMP(m), 1))

\* _clean_message_text(message)
CleanMessageText(m) ==
    IF m = <<>> THEN <<>> ELSE Strip(KeepBMP(ReplaceFrom(m, 1)))

\* send_message cleans the text it is given
CleanCall ==
    /\ kpc = "idle"
    /\ \E m \in Messages :
        /\ message' = m
        /\ clean_message' = CleanMessageText(m)
    /\ kpc' = "cleaned"
    /\ UNCHANGED <<appVars, clientVars, procVars, callerVars, workerVars, obsVars,
                   cyc, wait_s, observed, statusVars, configVars, locVars,
                   sendVars, clean_again>>

\* the cleaned text is cleaned once more
CleanAgain ==
    /\ kpc = "cleaned"
    /\ clean_again' = CleanMessageText(clean_message)
    /\ kpc' = "again"
    /\ UNCHANGED <<appVars, clientVars, procVars, callerVars, workerVars, obsVars,
                   cyc, wait_s, observed, statusVars, configVars, locVars,
                   sendVars, message, clean_message>>

NextClean ==
    \/ CleanCall
    \/ CleanAgain

SpecClean == Init /\ [][NextClean]_vars

\* -------------------------------------------- send_message, step by step
\* One call of send_message by the monitoring thread, on the client of the
\* single start, with the caller's start and stop running beside it.
nonSendVars == <<appVars, clientVars, procVars, callerVars, workerVars, obsVars,
                 cyc, wait_s, observed, statusVars, configVars, locVars,
                 textVars>>

\* a command sent to the browser completes only while there is one
Lives(ok) == ok => driver[gen]

\* return r, by the return statement y
Return(r, y) ==
    /\ mpc' = "done"
    /\ ret' = r
    /\ why' = y

\* continue, or the end of the for loop: return False (line 408)
NextAttempt ==
    IF sattempt < MaxRetries - 1
    THEN /\ sattempt' = sattempt + 1
         /\ mpc' = "nav"
         /\ UNCHANGED <<ret, why>>
    ELSE /\ Return("False", "exhausted")
         /\ UNCHANGED sattempt

\* send_message is called: if not self.session_active or not self.driver:
\* return False
SendCall ==
    /\ mpc = "idle"
    /\ mthread # 0
    /\ IF SessionUsable(gen)
       THEN /\ mpc' = "nav"
            /\ UNCHANGED <<ret, why>>
       ELSE Return("False", "guard")
    /\ UNCHANGED <<nonSendVars, sattempt, surface, did, navs, shots, injected,
                   submitted>>

\* self.driver.get(chat_url); time.sleep(8)
Navigate ==
    /\ mpc = "nav"
    /\ \E ok \in BOOLEAN :
          /\ Lives(ok)
          /\ mpc' = IF ok THEN "errcheck" ELSE "except"
    /\ navs' = navs + (IF driver[gen] THEN 1 ELSE 0)
    /\ did' = [NoAttempt EXCEPT !.nav = IF driver[gen] THEN 1 ELSE 0]
    /\ surface' = FALSE
    /\ UNCHANGED <<nonSendVars, sattempt, shots, injected, submitted, ret, why>>

\* an error marker that is retried like a missing input box
ErrorMarkerRetried ==
    /\ mpc = "errcheck"
    /\ driver[gen]
    /\ did' = [did EXCEPT !.marker = TRUE]
    /\ NextAttempt
    /\ UNCHANGED <<nonSendVars, surface, navs, shots, injected, submitted>>

\* an error element is found and displayed: return False
ErrorMarkerVisible ==
    /\ mpc = "errcheck"
    /\ driver[gen]
    /\ did' = [did EXCEPT !.marker = TRUE]
    /\ Return("False", "error_marker")
    /\ UNCHANGED <<nonSendVars, sattempt, surface, navs, shots, injected, submitted>>

\* no error selector gives a displayed element (find_element raising is
\* swallowed: continue)
ErrorMarkerNone ==
    /\ mpc = "errcheck"
    /\ mpc' = "input"
    /\ UNCHANGED <<nonSendVars, sattempt, surface, did, navs, shots, injected,
                   submitted, ret, why>>

\* message_input = self._wait_for_element(message_box, 20, clickable=True)
InputFound ==
    /\ mpc = "input"
    /\ driver[gen]
    /\ did' = [did EXCEPT !.input = "found"]
    /\ mpc' = "clear"
    /\ UNCHANGED <<nonSendVars, sattempt, surface, navs, shots, injected,
                   submitted, ret, why>>

\* _wait_for_element returns None
InputNotFound ==
    /\ mpc = "input"
    /\ driver[gen]
    /\ did' = [did EXCEPT !.input = "notfound"]
    /\ mpc' = "noinput"
    /\ UNCHANGED <<nonSendVars, sattempt, surface, navs, shots, injected,
                   submitted, ret, why>>

\* _wait_for_element raises (no browser, or a stale element)
InputRaises ==
    /\ mpc = "input"
    /\ mpc' = "except"
    /\ UNCHANGED <<nonSendVars, sattempt, surface, did, navs, shots, injected,
                   submitted, ret, why>>

\* if not message_input: save_screenshot; retry or return False
NoInputScreenshot ==
    /\ mpc = "noinput"
    /\ driver[gen]
    /\ shots' = shots + 1
    /\ did' = [did EXCEPT !.shot = @ + 1]
    /\ IF sattempt < MaxRetries - 1
       THEN /\ sattempt' = sattempt + 1
            /\ mpc' = "nav"
            /\ UNCHANGED <<ret, why>>
       ELSE /\ Return("False", "no_input")
            /\ UNCHANGED sattempt
    /\ UNCHANGED <<nonSendVars, surface, navs, injected, submitted>>

\* self.driver is None by now: save_screenshot raises
NoInputScreenshotRaises ==
    /\ mpc = "noinput"
    /\ ~driver[gen]
    /\ mpc' = "except"
    /\ UNCHANGED <<nonSendVars, sattempt, surface, did, navs, shots, injected,
                   submitted, ret, why>>

\* click, select all, delete; whatever raises is logged and dropped
ClearInput ==
    /\ mpc = "clear"
    /\ mpc' = "type"
    /\ UNCHANGED <<nonSendVars, sattempt, surface, did, navs, shots, injected,
                   submitted, ret, why>>

\* message_input.send_keys(clean_message) completes: success = True,
\* whether the text shows in the box or not
TypeCompleted ==
    /\ mpc = "type"
    /\ driver[gen]
    /\ \E shown \in BOOLEAN : surface' = shown
    /\ did' = [did EXCEPT !.typed = @ + 1]
    /\ injected' = TRUE
    /\ mpc' = "button"
    /\ UNCHANGED <<nonSendVars, sattempt, navs, shots, submitted, ret, why>>

\* send_keys raises: the JavaScript method is tried
TypeRaises ==
    /\ mpc = "type"
    /\ did' = [did EXCEPT !.typed = @ + 1]
    /\ injected' = TRUE
    /\ mpc' = "js"
    /\ UNCHANGED <<nonSendVars, sattempt, surface, navs, shots, submitted, ret, why>>

\* execute_script sets the content of the box: success = True
JsCompleted ==
    /\ mpc = "js"
    /\ driver[gen]
    /\ did' = [did EXCEPT !.js = @ + 1]
    /\ surface' = TRUE
    /\ mpc' = "button"
    /\ UNCHANGED <<nonSendVars, sattempt, navs, shots, injected, submitted, ret, why>>

\* execute_script raises too: success stays False, continue
JsRaises ==
    /\ mpc = "js"
    /\ did' = [did EXCEPT !.js = @ + 1]
    /\ NextAttempt
    /\ UNCHANGED <<nonSendVars, surface, navs, shots, injected, submitted>>

\* send_button = self._wait_for_element(send_button, 10, clickable=True)
ButtonFound ==
    /\ mpc = "button"
    /\ driver[gen]
    /\ did' = [did EXCEPT !.button = "found"]
    /\ mpc' = "click"
    /\ UNCHANGED <<nonSendVars, sattempt, surface, navs, shots, injected,
                   submitted, ret, why>>

\* no send button: sent is still False
ButtonNotFound ==
    /\ mpc = "button"
    /\ driver[gen]
    /\ did' = [did EXCEPT !.button = "notfound"]
    /\ mpc' = "enter"
    /\ UNCHANGED <<nonSendVars, sattempt, surface, navs, shots, injected,
                   submitted, ret, why>>

\* _wait_for_element raises
ButtonRaises ==
    /\ mpc = "button"
    /\ mpc' = "except"
    /\ UNCHANGED <<nonSendVars, sattempt, surface, did, navs, shots, injected,
                   submitted, ret, why>>

\* a click that is followed by Enter all the same
ClickCompletedThenEnter ==
    /\ mpc = "click"
    /\ driver[gen]
    /\ did' = [did EXCEPT !.click = "ok"]
    /\ submitted' = TRUE
    /\ mpc' = "enter"
    /\ UNCHANGED <<nonSendVars, sattempt, surface, navs, shots, injected, ret, why>>

\* scrollIntoView and send_button.click() complete: sent = True
ClickCompleted ==
    /\ mpc = "click"
    /\ driver[gen]
    /\ did' = [did EXCEPT !.click = "ok"]
    /\ submitted' = TRUE
    /\ mpc' = "verify"
    /\ UNCHANGED <<nonSendVars, sattempt, surface, navs, shots, injected, ret, why>>

\* the click raises: logged, sent stays False
ClickRaises ==
    /\ mpc = "click"
    /\ did' = [did EXCEPT !.click = "threw"]
    /\ submitted' = TRUE
    /\ mpc' = "enter"
    /\ UNCHANGED <<nonSendVars, sattempt, surface, navs, shots, injected, ret, why>>

\* if not sent: message_input.send_keys(Keys.ENTER): sent = True
EnterCompleted ==
    /\ mpc = "enter"
    /\ driver[gen]
    /\ did' = [did EXCEPT !.enter = "ok"]
    /\ submitted' = TRUE
    /\ mpc' = "verify"
    /\ UNCHANGED <<nonSendVars, sattempt, surface, navs, shots, injected, ret, why>>

\* Enter raises as well: if not sent: continue
EnterRaises ==
    /\ mpc = "enter"
    /\ did' = [did EXCEPT !.enter = "threw"]
    /\ submitted' = TRUE
    /\ NextAttempt
    /\ UNCHANGED <<nonSendVars, surface, navs, shots, injected>>

\* time.sleep(5); find_elements(message containers): their number is
\* logged, an exception is logged; return True
VerifyScan ==
    /\ mpc = "verify"
    /\ \E seen \in BOOLEAN :
          /\ Lives(seen)
          /\ did' = [did EXCEPT !.seen = seen]
    /\ Return("True", "submitted")
    /\ UNCHANGED <<nonSendVars, sattempt, surface, navs, shots, injected, submitted>>

\* except Exception, not the last attempt: time.sleep(3), next attempt
ExceptRetry ==
    /\ mpc = "except"
    /\ sattempt < MaxRetries - 1
    /\ sattempt' = sattempt + 1
    /\ mpc' = "nav"
    /\ UNCHANGED <<nonSendVars, surface, did, navs, shots, injected, submitted,
                   ret, why>>

\* except Exception on the last attempt: save_screenshot; return False
ExceptFinalScreenshot ==
    /\ mpc = "except"
    /\ sattempt = MaxRetries - 1
    /\ driver[gen]
    /\ shots' = shots + 1
    /\ did' = [did EXCEPT !.shot = @ + 1]
    /\ Return("False", "exception")
    /\ UNCHANGED <<nonSendVars, sattempt, surface, navs, injected, submitted>>

\* on the last attempt with self.driver None: save_screenshot raises inside
\* the handler and the exception leaves send_message
ExceptFinalRaises ==
    /\ mpc = "except"
    /\ sattempt = MaxRetries - 1
    /\ ~driver[gen]
    /\ Return("raised", "exception")
    /\ UNCHANGED <<nonSendVars, sattempt, surface, did, navs, shots, injected,
                   submitted>>

SendStep ==
    \/ SendCall
    \/ Navigate
    \/ ErrorMarkerVisible
    \/ ErrorMarkerNone
    \/ InputFound
    \/ InputNotFound
    \/ InputRaises
    \/ NoInputScreenshot
    \/ NoInputScreenshotRaises
    \/ ClearInput
    \/ TypeCompleted
    \/ TypeRaises
    \/ JsCompleted
    \/ JsRaises
    \/ ButtonFound
    \/ ButtonNotFound
    \/ ButtonRaises
    \/ ClickCompleted
    \/ ClickRaises
    \/ EnterCompleted
    \/ EnterRaises
    \/ VerifyScan
    \/ ExceptRetry
    \/ ExceptFinalScreenshot
    \/ ExceptFinalRaises

\* the foreground beside the call: one start_monitoring, then
\* stop_monitoring, whose join times out while the thread is in the call
SendCallerStep(c) ==
    \/ StartAlreadyRunning(c)
    \/ (gen = 0 /\ InitializeComponents(c))
    \/ StartSessionLaunch(c)
    \/ StartSessionNoDriver(c)
    \/ StartSessionAuthenticated(c)
    \/ StartSessionTimeout(c)
    \/ StartThread(c)
    \/ StartSetRunning(c)
    \/ StopNotRunning(c)
    \/ StopSignal(c)
    \/ StopJoinTimeout(c)
    \/ CleanupSession(c)
    \/ CleanupProcessor(c)
    \/ StopClearRunning(c)

NextSend ==
    \/ \E c \in SerialCallers : SendCallerStep(c)
    \/ SendStep

SpecSend == Init /\ [][NextSend]_vars

\* ---------------------------------------------------------------- claims
Usable(k) == session_active[k] /\ driver[k]
Successes == {"Sent", "VerificationUnconfirmed"}

\* C1 (as stated): the monitor loop never calls send_to_saved_number for an
\* id it has already called it for, in any cycle, before or after a restart.
C1_NeverSendsAnIdTwice ==
    [][\A w \in Workers :
          (pc[w] = "send" /\ pc'[w] # "send") => cur[w] \notin sent]_vars

\* C1 (amended): the loop never goes on to send an item whose id is in the
\* DedupStore (the in-memory set, loaded from the ledger and extended by
\* record) when the loop examines the item; this covers stores loaded by a
\* restart.
C1_NeverSendsARecordedId ==
    [][\A w \in Workers :
          (pc[w] = "item" /\ pc'[w] = "send")
             => Decode(cur'[w]) \notin processed_ids[wgen[w]]]_vars

\* C1 witness: after a restart, the loop of the only live worker has just
\* skipped an id that was sent before and that the reloaded store holds.
C1_SkippedAfterRestart ==
    \E w \in Workers :
        /\ pc[w] = "item" /\ cur[w] # 0 /\ wgen[w] = 2
        /\ cur[w] \in sent
        /\ Decode(cur[w]) \in processed_ids[1]
        /\ Decode(cur[w]) \in processed_ids[2]
        /\ \A v \in Workers \ {w} : ~Alive(v)

\* C2 (as stated): at most one execution of send_message is in progress at
\* any time.
C2_NoOverlappingSends ==
    Cardinality({w \in Workers : pc[w] = "attempt"}) <= 1

C5_DispatchOnlyWhenAuthenticated ==
    [][\A w \in Workers :
          /\ (pc[w] = "send" /\ pc'[w] # "send" /\ ~Usable(wgen[w]))
                => (pc'[w] = "sleep" /\ outcome'[w] = "SessionUnavailable")
          /\ (pc[w] # "attempt" /\ pc'[w] = "attempt")
                => (pc[w] = "send" /\ Usable(wgen[w]))
      ]_vars

\* C5 witness: a send called on a session that was not usable has returned
\* SessionUnavailable.
C5_RefusedSend ==
    \E w \in Workers :
        pc[w] = "sleep" /\ outcome[w] = "SessionUnavailable" /\ ~Usable(wgen[w])

\* C6 (as stated): while the stop signal is set, the loop does not go on to
\* send a new item.
C6_NoNewSendAfterStop ==
    [][\A w \in Workers :
          stop_event => ~(pc[w] = "item" /\ pc'[w] = "send")]_vars

\* C7: a worker whose inter-cycle sleep was in progress when the stop
\* signal was set is woken, and from then on it only leaves the loop: it
\* starts no further cycle, even when the signal is cleared again.
C7_StopDuringSleepExits ==
    [][\A w \in Workers :
          /\ (pc[w] = "sleeping" /\ (notified[w] \/ (~stop_event /\ stop_event')))
                => \/ pc'[w] = "sleeping" /\ notified'[w]
                   \/ pc'[w] = "exit"
          /\ pc[w] = "exit" => pc'[w] \in {"exit", "dead"}
          /\ pc[w] = "dead" => pc'[w] = "dead"
      ]_vars

\* C7 witness: the stop signal was set while a worker was in its
\* inter-cycle sleep.
C7_StoppedWhileSleeping ==
    \E w \in Workers : pc[w] = "sleeping" /\ notified[w] /\ stop_event

\* C8 (as stated): a pacing wait in progress while the stop signal is set
\* never ends by running out its delay.
C8_StopAbortsPacing ==
    [][\A w \in Workers :
          (pc[w] = "pace" /\ stop_event) => pc'[w] # "item"]_vars

\* C9 (as stated): when stop_monitoring was the last control call to
\* return, no call is in progress and no worker is alive, no launched
\* browser is left running.
C9_BrowserReleasedAfterShutdown ==
    (/\ lastStop
     /\ \A c \in Callers : cpc[c] = "idle"
     /\ \A w \in Workers : ~Alive(w))
        => NLive = 0

\* C10 (as stated): at most one launched browser is running at any time.
C10_AtMostOneBrowser == NLive <= 1

\* C11 (as stated): when stop_session returns, the client holds no driver,
\* its session is not active and no browser it launched is left running.
C11_StopLeavesNoBrowser ==
    [][\A c \in Callers :
          (cpc[c] = "p_cleanup" /\ cpc'[c] = "p_cleanup2")
             => /\ ~driver'[gen] /\ ~session_active'[gen]
                /\ leaked'[gen] = 0]_vars

\* C12 (as stated): when start_session gives up waiting for the chat list,
\* in start_monitoring or in the worker's reconnection, the session is not
\* active and the client retains no browser.
C12_StartTimeoutResets ==
    [][/\ \A c \in Callers :
            (cpc[c] = "s_auth" /\ cpc'[c] = "idle")
               => ~driver'[cgen[c]] /\ ~session_active'[cgen[c]]
       /\ \A w \in Workers :
            (pc[w] = "reauth" /\ pc'[w] = "exit")
               => ~driver'[wgen[w]] /\ ~session_active'[wgen[w]]
      ]_vars

\* C14 (as stated): at most one monitoring worker is alive at any time.
C14_AtMostOneWorker ==
    Cardinality({w \in Workers : Alive(w)}) <= 1

Failures == {"SessionUnavailable", "InputNotFound", "Failed", "SubmitFailed"}

C16_BackoffAfterFailure ==
    [][\A w \in Workers :
          (pc[w] = "sleep" /\ pc'[w] # "sleep" /\ outcome[w] \in Failures)
             => wait_s'[w] > CheckInterval]_vars

C19_LostCycleSendsNothing ==
    \A w \in Workers :
        cyc[w].lost =>
            /\ cyc[w].reconn = (IF pc[w] = "reconnect" THEN 0 ELSE 1)
            /\ cyc[w].calls = {} /\ cyc[w].rec = {}

\* C19 (amended): in a cycle whose health check failed there is exactly one
\* reconnection attempt (none in a cycle whose health check passed); when
\* that attempt fails the worker leaves the loop having made no send call
\* and added nothing to the set.
C19_OneReconnectionPerLostCycle ==
    \A w \in Workers :
        /\ cyc[w].reconn =
              (IF cyc[w].lost /\ pc[w] # "reconnect" THEN 1 ELSE 0)
        /\ (cyc[w].lost /\ pc[w] = "exit")
              => cyc[w].calls = {} /\ cyc[w].rec = {}

\* C19 witness: a reconnection failed after a failed health check.
C19_ReconnectionFailed ==
    \E w \in Workers :
        /\ pc[w] = "exit" /\ cyc[w].lost /\ cyc[w].reconn = 1
        /\ cyc[w].calls = {}

\* C20 (as stated): while no stop has been requested, a failed reconnection
\* does not make the worker leave the loop.
C20_FailedReconnectKeepsRunning ==
    [][\A w \in Workers :
          (pc[w] \in {"reconnect", "reauth"} /\ ~stop_event /\ ~stop_event')
             => pc'[w] # "exit"]_vars

\* C13 (as stated): a step of get_status changes no session state and no
\* loop state and starts no command against the browser.
C13_GetStatusReadOnly ==
    [][spc' # spc =>
          /\ spc' # "probing"
          /\ UNCHANGED <<appVars, clientVars, procVars, workerVars>>]_vars

\* C18 (as stated): a get_status that returns after a worker's cycle has
\* completed reports that cycle's outcome: clean, or the failure kind.
C18_StatusReportsLastCycle ==
    [][\A w \in Workers :
          (spc # "idle" /\ spc' = "idle" /\ pc[w] = "sleep")
             => /\ "lastCycleOutcome" \in DOMAIN status'
                /\ status'["lastCycleOutcome"] =
                      (IF outcome[w] \in Failures THEN outcome[w] ELSE "clean")
      ]_vars

\* a usable match for the call: displayed, and enabled when clickable
UsableMatch(m) == IF clickable THEN m = "visible" ELSE m \in {"visible", "disabled"}

\* C21 (as stated): the element returned is the first selector's that is
\* displayed (and enabled when clickable), and None is returned only after
\* every selector of the list ran out its timeout
C21_FirstVisibleOrAllTimedOut ==
    /\ element = "element" =>
          /\ UsableMatch(selectors[sel_i])
          /\ \A j \in 1..(sel_i - 1) : ~UsableMatch(selectors[j])
    /\ element = "None" => slices = Len(selectors)

Min(a, b) == IF a <= b THEN a ELSE b

\* C23 (as stated): a cycle sends at most max_emails_per_run items, and a
\* cycle that runs through its batch with no failure and no cancellation
\* has sent min(max_emails_per_run, number of fetched ids that were not
\* in processed_ids) items
C23_CeilingCountsUnhandled ==
    [][\A w \in Workers :
        /\ Cardinality(cyc'[w].calls) <= max_emails_per_run
        /\ (/\ observed
            /\ pc[w] = "item" /\ pc'[w] = "sleep" /\ todo[w] = <<>>
            /\ ~cyc[w].fail)
           => Cardinality(cyc[w].calls) =
                 Min(max_emails_per_run, Cardinality(cyc[w].fresh))]_vars

C30_PacingCancelledWithItemsLeft ==
    \E w \in Workers :
        /\ cyc[w].pace = "cancelled"
        /\ todo[w] # <<>>

\* the attempt in hand has tried to put the text in the box / to submit
Injected == did.typed > 0 \/ did.js > 0
Submitted == did.click # "none" \/ did.enter # "none"

\* C24 (as stated): when send returns because an error marker is visible,
\* exactly one navigation has been made by the call and no text injection
\* or submit has been attempted by it
C24_ErrorMarkerAfterOneNavigation ==
    why = "error_marker" =>
        (ret = "False" /\ navs = 1 /\ ~injected /\ ~submitted)

\* C24 (amended): the attempt that finds a visible error marker makes send
\* return False at once, with no retry after it; that attempt has made
\* exactly one navigation and no text injection or submit
C24_ErrorMarkerEndsTheCall ==
    did.marker =>
        /\ mpc = "done" /\ ret = "False" /\ why = "error_marker"
        /\ did.nav = 1 /\ ~Injected /\ ~Submitted

\* the error marker shows in the second attempt, after the first one typed
\* the text and could not submit it
C24_ErrorMarkerInSecondAttempt ==
    /\ did.marker
    /\ sattempt = 1
    /\ navs = 2
    /\ injected /\ submitted

\* C25: an attempt whose input box was not found has saved a screenshot
\* before it ends, has injected and submitted nothing, is retried from the
\* navigation while attempts remain and makes send return False after the
\* last one; the call never navigates more than MaxRetries times
C25_MissingInputRecordedAndRetried ==
    /\ navs <= MaxRetries
    /\ did.input = "notfound" =>
          /\ ~Injected /\ ~Submitted
          /\ mpc # "noinput" => did.shot >= 1
          /\ mpc = "done" => (ret = "False" /\ sattempt = MaxRetries - 1)

\* C26: submit is attempted on a box that does not show the text only
\* after the JavaScript method has run, once, in that attempt
C26_FallbackBeforeSubmit ==
    (Submitted /\ ~surface) => did.js = 1

\* C27: when the submit phase of an attempt is over, Enter has been sent
\* exactly when the send button was not found or clicking it raised; after
\* a click that completed no Enter is sent
C27_EnterOnlyWithoutClick ==
    /\ mpc # "enter" =>
          (did.enter # "none" <=> (did.button = "notfound" \/ did.click = "threw"))
    /\ ~(did.click = "ok" /\ did.enter # "none")

\* the click raised and Enter submitted the text
C27_EnterAfterFailedClick ==
    /\ did.click = "threw"
    /\ did.enter = "ok"
    /\ mpc = "done"

\* C28: send returns True only if the scan found a message container with
\* the text
C28_SentOnlyIfSeen ==
    ret = "True" => did.seen

\* C29: when send returns False because the attempts are used up, a
\* screenshot has been saved by the attempt it returns from
C29_SnapshotBeforeFailure ==
    (ret = "False" /\ why \in {"no_input", "exhausted", "exception"})
    => did.shot >= 1

\* start_session returns True on client k in this step, having found the
\* chat list
StartSucceeds(k) ==
    \/ \E c \in Callers : cpc[c] = "s_auth" /\ cpc'[c] = "s_thread" /\ cgen[c] = k
    \/ \E w \in Workers : pc[w] = "reauth" /\ pc'[w] = "poll" /\ wgen[w] = k

\* C31 (as stated): a session a health check has found lost (the thread was
\* started on an active session, the one browser launched is still there,
\* and session_active is False: a failed is_session_active wrote it) is
\* permitted for dispatch again only by a start_session that succeeds; and
\* no step of is_session_active launches or quits a browser
C31_LostUntilStartSucceeds ==
    [][/\ \A k \in Gens :
            (/\ mthread # 0 /\ launched = 1 /\ driver[k] /\ ~session_active[k]
             /\ session_active'[k] /\ driver'[k])
            => StartSucceeds(k)
       /\ ((\E w \in Workers : pc[w] \in {"probe", "probing"} /\ pc'[w] # pc[w])
           \/ (spc \in {"call", "probing"} /\ spc' # spc))
          => UNCHANGED <<driver, launched, leaked>>]_vars

\* the keys of the replacement table
TableChars == {emoji_replacements[i][1] : i \in 1..Len(emoji_replacements)}

\* the placeholder the table gives for c
Placeholder(c) ==
    emoji_replacements[CHOOSE i \in 1..Len(emoji_replacements) :
                           emoji_replacements[i][1] = c][2]

\* what one character becomes
Image(c) ==
    IF c \in TableChars THEN Placeholder(c)
    ELSE IF c > 65535 THEN <<63>>
    ELSE <<c>>

\* the images of the characters of m, one after the other
RECURSIVE Images(_)
Images(m) == IF m = <<>> THEN <<>> ELSE Image(Head(m)) \o Images(Tail(m))

\* t is s without its leading and trailing whitespace
Trimmed(s, t) ==
    \E i \in 1..(Len(s) + 1), j \in 0..Len(s) :
        /\ t = SubSeq(s, i, j)
        /\ \A n \in 1..Len(s) : (n < i \/ n > j) => IsSpace(s[n])
        /\ t # <<>> => ~IsSpace(t[1]) /\ ~IsSpace(t[Len(t)])

\* C32: the text returned is the argument with every table character
\* replaced by its placeholder and every other character above 0xFFFF by
\* "?", without the surrounding whitespace; cleaning the result again
\* returns it unchanged
C32_CleanReplacesTrimsIdempotent ==
    /\ kpc # "idle" => Trimmed(Images(message), clean_message)
    /\ kpc = "again" => clean_again = clean_message

C32_EnvelopeFaceAndSpaceCleanedTwice ==
    /\ kpc = "again"
    /\ message = <<32, 128231, 128512>>
    /\ clean_message = <<91, 69, 77, 65, 73, 76, 93, 63>>
    /\ clean_again = clean_message

\* C33 (as stated): whenever no record is between its append and its add,
\* the in-memory set of the store in use equals the set of ids the ledger
\* holds, whether the appends succeeded or failed.
C33_SetEqualsLedger ==
    (gen # 0 /\ \A w \in Workers : pc[w] # "add")
       => processed_ids[gen] = LoadProcessedIds(ledger)

\* worker w will end whatever the stop signal becomes: it is not started,
\* has left its loop, or is in a wait that set() has woken
LeavesAnyway(w) ==
    \/ pc[w] \in {"unborn", "exit", "dead"}
    \/ pc[w] = "sleeping" /\ notified[w]

\* C34 (as stated): a stop request is never lost: the signal stop_monitoring
\* set is cleared only once every worker that was alive at the call has
\* left its loop or has been woken by it, so that each of them exits
\* whatever start_monitoring does afterwards.
C34_StopRequestKept ==
    [][(stop_event /\ ~stop_event') => \A w \in Workers : LeavesAnyway(w)]_vars

\* C35 (as stated): whenever no start_monitoring or stop_monitoring call is
\* in progress, is_running is True exactly when a monitoring worker thread
\* is alive.
C35_RunningIffWorkerAlive ==
    (\A c \in Callers : cpc[c] = "idle")
       => (is_running <=> \E w \in Workers : Alive(w))


\* C36 (as stated): a client whose session_active is True holds a browser
\* instance (self.driver is not None).
C36_ActiveImpliesDriver ==
    \A k \in Gens : session_active[k] => driver[k]

\* C37 (as stated): a call of send_message makes at most max_retries
\* attempts and, once over, has returned True or False: no exception has
\* left it, whichever browser command failed.
C37_ReturnsBooleanWithinRetries ==
    /\ sattempt < MaxRetries
    /\ navs <= MaxRetries
    /\ mpc = "done" => ret \in {"True", "False"}

\* C38: a worker leaves its loop only in a step in which the stop signal is
\* set or has woken its wait, or out of a reconnection; after a cycle that
\* raised, the worker blocked in the error delay leaves that wait only to
\* exit or to begin another cycle.
C38_RaisedCycleIsFollowedByAnother ==
    [][\A w \in Workers :
          /\ (pc[w] # "exit" /\ pc'[w] = "exit")
                => (stop_event \/ notified[w] \/ pc[w] \in {"reconnect", "reauth"})
          /\ (pc[w] = "sleeping" /\ wait_s[w] = ErrorDelay /\ pc'[w] # "sleeping")
                => \/ pc'[w] = "exit"
                   \/ pc'[w] = "probe" /\ cycles'[w] = cycles[w] + 1
      ]_vars

\* C38 witness: the worker's first cycle raised, the error delay ran out
\* with the stop signal clear, and the worker is polling in its second cycle.
C38_SecondCycleAfterRaise ==
    \E w \in Workers :
        /\ pc[w] = "poll"
        /\ wait_s[w] = ErrorDelay
        /\ cycles[w] = 2
        /\ ~stop_event

=============================================================================
